---- MODULE Spec2Model ----
(***************************************************************************)
(* A model of aiomcrcon.client.Client: the RCON protocol engine.          *)
(*                                                                         *)
(* Python values are modelled as follows.  A str is a sequence of code    *)
(* points, a bytes object a sequence of numbers in 0..255, None is 0 for  *)
(* the reader/writer references (connections are numbered from 1).        *)
(* An exception is the name of its class.                                 *)
(***************************************************************************)
EXTENDS Integers, Sequences, FiniteSets, TLC

(* ---------------------------------------------------------------- bounds *)

\* Calls a caller task may make in one behaviour.
MaxCalls == 3
\* TCP connections that may be opened in one behaviour.
MaxConns == 2
\* Longest raw payload drawn for the receive path of the codec specification.
MaxRawLen == 10
\* Calls the tasks of the concurrent specification may make between them.
MaxConcCalls == 3

(* ------------------------------------------------------------- constants *)

LOGIN == 3
COMMAND == 2
RESPONSE == 0
INVALID_AUTH == -1

\* random.randint(0, 2147483647): both ends of the range.
ReqIds == {0, 2147483647}

\* Code points: "a", "p", newline and the colour marker U+00A7.
ChA == 97
ChP == 112
ChNl == 10
ChSect == 167

\* self.password and the command texts the callers send.
Password == <<ChP>>
Cmds == {<<ChA>>, <<ChSect, ChA>>}

None == 0

(* ------------------------------------------------------- bytes and text *)

Min(a, b) == IF a <= b THEN a ELSE b

\* Python's b[i:j] for 0 <= i, with j clipped to len(b); empty when j <= i.
Slice(b, i, j) == SubSeq(b, i + 1, Min(j, Len(b)))

\* struct.pack("<i", n): four bytes, little-endian, two's complement. (TLC's
\* integers are 32 bits wide, so a negative n is packed as n + 2^31 with the top
\* bit set.)
Pack32(n) ==
    LET m == IF n < 0 THEN (n + 2147483647) + 1 ELSE n
        top == IF n < 0 THEN 128 ELSE 0
    IN  << m % 256, (m \div 256) % 256, (m \div 65536) % 256, (m \div 16777216) + top >>

\* struct.unpack("<i", b)[0] for a b of exactly four bytes.
Unpack32(b) ==
    LET low == b[1] + 256 * b[2] + 65536 * b[3]
    IN  IF b[4] >= 128
        THEN ((low + 16777216 * (b[4] - 128)) - 2147483647) - 1
        ELSE low + 16777216 * b[4]

\* str.encode("utf8") for code points below U+0800.
RECURSIVE EncodeUtf8(_)
EncodeUtf8(s) ==
    IF s = <<>> THEN <<>>
    ELSE LET cp == Head(s)
         IN  (IF cp < 128 THEN <<cp>> ELSE <<192 + (cp \div 64), 128 + (cp % 64)>>)
             \o EncodeUtf8(Tail(s))

\* Whether bytes.decode("utf8") accepts b (one- and two-byte sequences; every
\* byte the model feeds it is below 0xE0 or is 0xFF, which no sequence holds).
RECURSIVE ValidUtf8(_)
ValidUtf8(b) ==
    IF b = <<>> THEN TRUE
    ELSE IF Head(b) < 128 THEN ValidUtf8(Tail(b))
    ELSE IF Head(b) >= 194 /\ Head(b) <= 223
         THEN Len(b) >= 2 /\ b[2] >= 128 /\ b[2] <= 191 /\ ValidUtf8(Tail(Tail(b)))
    ELSE FALSE

\* bytes.decode("utf8") of a valid b.
RECURSIVE DecodeUtf8(_)
DecodeUtf8(b) ==
    IF b = <<>> THEN <<>>
    ELSE IF Head(b) < 128 THEN <<Head(b)>> \o DecodeUtf8(Tail(b))
    ELSE <<(Head(b) - 192) * 64 + (b[2] - 128)>> \o DecodeUtf8(Tail(Tail(b)))

\* re.sub("<U+00A7>.", "", s): the marker and the character after it are
\* dropped, left to right; "." does not match a newline.
RECURSIVE StripColors(_)
StripColors(s) ==
    IF s = <<>> THEN <<>>
    ELSE IF Head(s) = ChSect /\ Len(s) >= 2 /\ s[2] # ChNl
         THEN StripColors(Tail(Tail(s)))
    ELSE <<Head(s)>> \o StripColors(Tail(s))

\* in_data.endswith(b"\x00\x00")
EndsNulNul(b) == Len(b) >= 2 /\ b[Len(b) - 1] = 0 /\ b[Len(b)] = 0

(* ------------------------------------------------------------ send path *)

\* EncodePacket with the two header fields in the order the receive path reads
\* them: type, then request id.
EncodePacketTypeFirst(req_id, type_, msg) ==
    LET packet_data == Pack32(type_) \o Pack32(req_id) \o EncodeUtf8(msg) \o <<0, 0>>
    IN  Pack32(Len(packet_data)) \o packet_data

\* Lines 61 and 64: request id, then type, then the body and two NULs,
\* prefixed by the length of all that.
EncodePacket(req_id, type_, msg) ==
    LET packet_data == Pack32(req_id) \o Pack32(type_) \o EncodeUtf8(msg) \o <<0, 0>>
    IN  Pack32(Len(packet_data)) \o packet_data

(* --------------------------------------------------------- receive path *)

NoValue == [msg |-> <<>>, type |-> 0]
Raise(e) == [kind |-> "raise", exc |-> e, value |-> NoValue]
Return(m, ty) == [kind |-> "return", exc |-> "", value |-> [msg |-> m, type |-> ty]]
Pending == [kind |-> "none", exc |-> "", value |-> NoValue]

\* The two header fields of a payload, in the order line 80 names them.
HeaderFields(in_data) ==
    [in_type |-> Unpack32(SubSeq(in_data, 1, 4)), in_req_id |-> Unpack32(SubSeq(in_data, 5, 8))]

\* DecodePayload without lines 82-83: the type of the answer is not looked at.
DecodePayloadAnyType(in_data) ==
    IF ~EndsNulNul(in_data) THEN Raise("ValueError")
    ELSE IF Len(Slice(in_data, 0, 8)) # 8 THEN Raise("StructError")
    ELSE LET h == HeaderFields(in_data)
             body == Slice(in_data, 8, Len(in_data) - 2)
         IN  IF ~ValidUtf8(body) THEN Raise("UnicodeDecodeError")
             ELSE Return(DecodeUtf8(body), h.in_type)

\* Lines 76-88 on the bytes the second read returned.
DecodePayload(in_data) ==
    IF ~EndsNulNul(in_data) THEN Raise("ValueError")
    ELSE IF Len(Slice(in_data, 0, 8)) # 8 THEN Raise("StructError")
    ELSE LET h == HeaderFields(in_data)
             body == Slice(in_data, 8, Len(in_data) - 2)
         IN  IF h.in_type = INVALID_AUTH THEN Raise("IncorrectPasswordError")
             ELSE IF ~ValidUtf8(body) THEN Raise("UnicodeDecodeError")
             ELSE Return(DecodeUtf8(body), h.in_type)

\* StreamReader.read(n) on buffered bytes: all of them for n < 0 (the stream is
\* at end of file), none for n = 0, else at most n.
StreamRead(buf, n) == IF n < 0 THEN buf ELSE SubSeq(buf, 1, Min(n, Len(buf)))
StreamRest(buf, n) == IF n < 0 THEN <<>> ELSE SubSeq(buf, Min(n, Len(buf)) + 1, Len(buf))

\* Lines 70-88 on a stream that is wholly buffered and then at end of file.
RecvPacket(stream) ==
    LET hdr == StreamRead(stream, 4)
    IN  IF Len(hdr) # 4 THEN Raise("StructError")
        ELSE DecodePayload(StreamRead(StreamRest(stream, 4), Unpack32(hdr)))

(* ---------------------------------------------------------------- state *)

\* Caller tasks; the serialised specifications run the first alone.
Tasks == {1, 2}
Callers == {1}
Conns == 1..MaxConns

VARIABLES
    ready,      \* self._ready
    reader,     \* self._reader: None or the connection it reads
    writer,     \* self._writer: None or the connection it writes
    reBound,    \* whether the name re resolves in client.py (see NameRe)
    nconn,      \* connections opened so far
    transport,  \* per connection: "unopened", "open" or "closed" (this side)
    outq,       \* per connection: packets written that the server has yet to answer
    inflight,   \* per connection: bytes the server sent that have yet to arrive
    inbuf,      \* per connection: bytes received and not yet read
    eof,        \* per connection: the peer has closed its side
    waiter,     \* per connection: the task its StreamReader has waiting, or None
    pc,         \* per task: where its call is suspended, or "idle"
    calls,      \* per task: calls made
    arg,        \* per task: the cmd argument of send_cmd
    strip,      \* per task: the strip_colors argument of send_cmd
    rd,         \* per task: the reader its pending read was issued on
    in_len,     \* per task: in_len, once unpacked
    result,     \* per task: the call in progress or last made, and its outcome
    cin,        \* codec specification: the input drawn
    cout        \* codec specification: what the receive path made of it

engineVars == <<ready, reader, writer, reBound>>
netVars == <<nconn, transport, outq, inflight, inbuf, eof, waiter>>
taskVars == <<pc, calls, arg, strip, rd, in_len, result>>
codecVars == <<cin, cout>>
vars == <<engineVars, netVars, taskVars, codecVars>>

\* The server's answers: well-formed packets of each type, and three shapes the
\* receive path must reject.
RespBodies == {<<ChA>>, <<ChSect, ChA>>}
Replies ==
    [kind : {"ok"}, type : {RESPONSE}, body : RespBodies]
    \cup [kind : {"ok"}, type : {COMMAND, INVALID_AUTH}, body : {<<ChA>>}]
    \cup [kind : {"noterm", "short", "badutf8"}, type : {RESPONSE}, body : {<<>>}]

\* A response as the receive path lays it out: type at payload offset 0, request
\* id at offset 4.
ResponsePacket(type_, id, body) ==
    LET d == Pack32(type_) \o Pack32(id) \o EncodeUtf8(body) \o <<0, 0>>
    IN  Pack32(Len(d)) \o d

\* The bytes of answer r to the written packet req (whose id it echoes).
ReplyBytes(r, req) ==
    LET id == Unpack32(SubSeq(req, 5, 8))
    IN  CASE r.kind = "ok" -> ResponsePacket(r.type, id, r.body)
          [] r.kind = "noterm" -> Pack32(10) \o Pack32(r.type) \o Pack32(id) \o <<ChA, ChA>>
          [] r.kind = "short" -> Pack32(2) \o <<0, 0>>
          [] r.kind = "badutf8" -> Pack32(11) \o Pack32(r.type) \o Pack32(id) \o <<255, 0, 0>>

NoResult ==
    [op |-> "none", kind |-> "none", exc |-> "", value |-> NoValue,
     conn |-> None, why |-> "", cause |-> "", after |-> ""]

\* A call of op begins.
Begun(op) == [NoResult EXCEPT !.op = op]
\* A send_cmd begins, by a task whose previous call raised prev: the record
\* keeps whether that was the timeout of a send_cmd.
BegunAfter(prev) ==
    [Begun("send_cmd") EXCEPT !.after = IF prev = "TimeoutError" THEN prev ELSE ""]
\* base with the outcome out.
With(base, out) == [base EXCEPT !.kind = out.kind, !.exc = out.exc, !.value = out.value]

NoCodec == [kind |-> "none", req_id |-> 0, type |-> 0, msg |-> <<>>, len |-> 0, stream |-> <<>>]

\* __init__: no reader, no writer, not ready.
InitEngine ==
    /\ ready = FALSE
    /\ reader = None
    /\ writer = None
    /\ reBound \in BOOLEAN
    /\ nconn = 0
    /\ transport = [c \in Conns |-> "unopened"]
    /\ outq = [c \in Conns |-> <<>>]
    /\ inflight = [c \in Conns |-> <<>>]
    /\ inbuf = [c \in Conns |-> <<>>]
    /\ eof = [c \in Conns |-> FALSE]
    /\ waiter = [c \in Conns |-> None]
    /\ pc = [t \in Tasks |-> "idle"]
    /\ calls = [t \in Tasks |-> 0]
    /\ arg = [t \in Tasks |-> <<>>]
    /\ strip = [t \in Tasks |-> FALSE]
    /\ rd = [t \in Tasks |-> None]
    /\ in_len = [t \in Tasks |-> 0]
    /\ result = [t \in Tasks |-> NoResult]

Init == InitEngine /\ cin = NoCodec /\ cout = Pending

(* ----------------------------------------------------- the receive steps *)

\* Whether StreamReader.read(n) returns at once: read(0) always, read(-1) at end
\* of file only, read(n) once a byte is buffered or the stream is at its end.
\* A read that cannot return at once waits, one task at a time per reader: a
\* second one raises RuntimeError.
CanRead(buf, atEof, n) ==
    \/ n = 0
    \/ n < 0 /\ atEof
    \/ n > 0 /\ (buf # <<>> \/ atEof)

\* Whether task t's pending read of n bytes resumes: bytes or end of file were
\* fed to its reader since it began to wait (read(-1) goes on to end of file).
\* It takes what the buffer holds by then, which is nothing if another task
\* read it first.
Resumes(t, n) == waiter[rd[t]] # t /\ (n < 0 => eof[rd[t]])

\* Line 97: re.sub on the body. client.py imports no re (lines 1-5), so the
\* name resolves only if the star import of .errors binds it; when it does not,
\* the lookup raises NameError.
NameRe(bound, out) ==
    IF bound THEN Return(StripColors(out.value.msg), out.value.type)
    ELSE Raise("NameError")

\* Lines 95-99: what send_cmd makes of the value _send_msg returned.
Stripped(out, strip_colors, bound) ==
    IF out.kind = "return" /\ strip_colors THEN NameRe(bound, out) ELSE out

\* Complete with an engine that leaves the ready state when a call raises.
CompleteDisconnects(t, base, out) ==
    /\ pc' = [pc EXCEPT ![t] = "idle"]
    /\ waiter' = [c \in Conns |-> IF waiter[c] = t THEN None ELSE waiter[c]]
    /\ rd' = [rd EXCEPT ![t] = None]
    /\ in_len' = [in_len EXCEPT ![t] = 0]
    /\ arg' = [arg EXCEPT ![t] = <<>>]
    /\ strip' = [strip EXCEPT ![t] = FALSE]
    /\ IF base.op = "connect"
       THEN /\ ready' = (IF out.kind = "return" THEN TRUE ELSE ready)
            /\ result' = [result EXCEPT ![t] =
                   With(base, IF out.kind = "return" THEN Return(<<>>, 0) ELSE out)]
       ELSE /\ ready' = (IF out.kind = "raise" THEN FALSE ELSE ready)
            /\ result' = [result EXCEPT ![t] =
                   [With(base, Stripped(out, strip[t], reBound)) EXCEPT !.after = ""]]

\* _send_msg has ended with out: connect sets _ready only when it returned
\* (line 52), send_cmd post-processes what it returned (lines 95-99). A read
\* that was cancelled while it waited gives up its place as the waiter. The
\* call's arguments and locals end with it.
Complete(t, base, out) ==
    /\ pc' = [pc EXCEPT ![t] = "idle"]
    /\ waiter' = [c \in Conns |-> IF waiter[c] = t THEN None ELSE waiter[c]]
    /\ rd' = [rd EXCEPT ![t] = None]
    /\ in_len' = [in_len EXCEPT ![t] = 0]
    /\ arg' = [arg EXCEPT ![t] = <<>>]
    /\ strip' = [strip EXCEPT ![t] = FALSE]
    /\ IF base.op = "connect"
       THEN /\ ready' = (IF out.kind = "return" THEN TRUE ELSE ready)
            /\ result' = [result EXCEPT ![t] =
                   With(base, IF out.kind = "return" THEN Return(<<>>, 0) ELSE out)]
       ELSE /\ ready' = ready
            /\ result' = [result EXCEPT ![t] =
                   [With(base, Stripped(out, strip[t], reBound)) EXCEPT !.after = ""]]

\* The task waits at `where` for bytes of connection c, as the waiter of its
\* StreamReader.
Suspend(t, base, where, c, n) ==
    /\ pc' = [pc EXCEPT ![t] = where]
    /\ waiter' = [waiter EXCEPT ![c] = t]
    /\ UNCHANGED <<arg, strip>>
    /\ rd' = [rd EXCEPT ![t] = c]
    /\ in_len' = [in_len EXCEPT ![t] = n]
    /\ result' = [result EXCEPT ![t] = base]
    /\ ready' = ready

\* Line 74 on: self._reader (rdr, as it is now) is asked for in_len = n bytes,
\* ib being the receive buffers as line 71 left them.
ReadPayload(t, base, rdr, ib, n) ==
    IF rdr = None
    THEN inbuf' = ib /\ Complete(t, base, Raise("AttributeError"))
    ELSE IF CanRead(ib[rdr], eof[rdr], n)
         THEN /\ inbuf' = [ib EXCEPT ![rdr] = StreamRest(ib[rdr], n)]
              /\ Complete(t, base, DecodePayload(StreamRead(ib[rdr], n)))
         ELSE IF waiter[rdr] # None
              THEN inbuf' = ib /\ Complete(t, base, Raise("RuntimeError"))
              ELSE inbuf' = ib /\ Suspend(t, base, "read_data", rdr, n)

\* Line 71 once read(4) on connection c returns: struct.unpack wants four bytes.
HeaderArrived(t, base, c, rdr, ib) ==
    LET hdr == StreamRead(ib[c], 4)
        ib2 == [ib EXCEPT ![c] = StreamRest(ib[c], 4)]
    IN  IF Len(hdr) # 4
        THEN inbuf' = ib2 /\ Complete(t, base, Raise("StructError"))
        ELSE ReadPayload(t, base, rdr, ib2, Unpack32(hdr))

\* Line 71: self._reader.read(4), which waits unless bytes are buffered.
ReadHeader(t, base, rdr, ib) ==
    IF rdr = None
    THEN inbuf' = ib /\ Complete(t, base, Raise("AttributeError"))
    ELSE IF CanRead(ib[rdr], eof[rdr], 4)
         THEN HeaderArrived(t, base, rdr, rdr, ib)
         ELSE IF waiter[rdr] # None
              THEN inbuf' = ib /\ Complete(t, base, Raise("RuntimeError"))
              ELSE inbuf' = ib /\ Suspend(t, base, "read_len", rdr, 0)

(* -------------------------------------------------------------- connect *)

\* ConnectCall without lines 38-39: a ready engine connects again.
ConnectCallUnchecked(t) ==
    /\ pc[t] = "idle"
    /\ calls[t] < MaxCalls
    /\ calls' = [calls EXCEPT ![t] = @ + 1]
    /\ result' = [result EXCEPT ![t] = Begun("connect")]
    /\ pc' = [pc EXCEPT ![t] = "opening"]
    /\ UNCHANGED <<engineVars, netVars, arg, strip, rd, in_len, codecVars>>

\* Lines 38-42: nothing when ready, else open_connection under wait_for.
ConnectCall(t) ==
    /\ pc[t] = "idle"
    /\ calls[t] < MaxCalls
    /\ calls' = [calls EXCEPT ![t] = @ + 1]
    /\ IF ready
       THEN /\ result' = [result EXCEPT ![t] = With(Begun("connect"), Return(<<>>, 0))]
            /\ pc' = pc
       ELSE /\ result' = [result EXCEPT ![t] = Begun("connect")]
            /\ pc' = [pc EXCEPT ![t] = "opening"]
    /\ UNCHANGED <<engineVars, netVars, arg, strip, rd, in_len, codecVars>>

\* What wait_for(open_connection(...)) may raise: the timeout, a refusal, and
\* any other failure of the transport.
OpenErrors == {"TimeoutError", "ConnectionRefusedError", "OSError"}

\* Lines 43-48: the except clauses, tried in order; each raises
\* RCONConnectionError with a message of its own and the exception caught.
ExceptClause(e) ==
    IF e = "TimeoutError" THEN "timeout"
    ELSE IF e = "ConnectionRefusedError" THEN "refused"
    ELSE "unknown"

\* OpenFailed without lines 45-46: a refusal falls through to the last clause.
OpenFailedNoRefusedClause(t, e) ==
    /\ pc[t] = "opening"
    /\ pc' = [pc EXCEPT ![t] = "idle"]
    /\ result' = [result EXCEPT ![t] =
           [With(@, Raise("RCONConnectionError"))
               EXCEPT !.why = IF e = "TimeoutError" THEN "timeout" ELSE "unknown",
                      !.cause = e]]
    /\ UNCHANGED <<engineVars, netVars, calls, arg, strip, rd, in_len, codecVars>>

\* Lines 41-48: open_connection failed with e, before lines 42 and 50 stored or
\* wrote anything; every failure is an RCONConnectionError.
OpenFailed(t, e) ==
    /\ pc[t] = "opening"
    /\ pc' = [pc EXCEPT ![t] = "idle"]
    /\ result' = [result EXCEPT ![t] =
           [With(@, Raise("RCONConnectionError")) EXCEPT !.why = ExceptClause(e), !.cause = e]]
    /\ UNCHANGED <<engineVars, netVars, calls, arg, strip, rd, in_len, codecVars>>

\* Whether some task's pending read is on connection c.
Reading(c) == \E u \in Tasks : pc[u] \in {"read_len", "read_data"} /\ rd[u] = c

\* Whether the engine or a pending read still refers to connection c. What
\* the network holds for any other connection can reach nobody.
Referenced(c) == reader = c \/ writer = c \/ Reading(c)

\* q with the entries of the connections in gone emptied.
Forget(q, gone) == [c \in Conns |-> IF c \in gone THEN <<>> ELSE q[c]]

\* Lines 42 and 50: the connection is stored over whatever self._reader and
\* self._writer held, then _send_msg writes the LOGIN packet (lines 58-68) and
\* reads the answer, with no timeout around it.
OpenDone(t) ==
    /\ pc[t] = "opening"
    /\ nconn < MaxConns
    /\ LET c == nconn + 1
           gone == {o \in Conns : o # c /\ Referenced(o) /\ ~Reading(o)}
       IN  /\ nconn' = c
           /\ transport' = [transport EXCEPT ![c] = "open"]
           /\ reader' = c
           /\ writer' = c
           /\ \E req_id \in ReqIds :
                  outq' = [Forget(outq, gone) EXCEPT ![c] = <<EncodePacket(req_id, LOGIN, Password)>>]
           /\ inflight' = Forget(inflight, gone)
           /\ ReadHeader(t, [result[t] EXCEPT !.conn = c], c, Forget(inbuf, gone))
    /\ UNCHANGED <<reBound, eof, calls, codecVars>>

(* ------------------------------------------------------------- send_cmd *)

\* SendCmdCall without lines 92-93: _send_msg is started whatever _ready says.
SendCmdCallUnchecked(t, cmd, strip_colors) ==
    /\ pc[t] = "idle"
    /\ calls[t] < MaxCalls
    /\ calls' = [calls EXCEPT ![t] = @ + 1]
    /\ result' = [result EXCEPT ![t] = BegunAfter(result[t].exc)]
    /\ pc' = [pc EXCEPT ![t] = "cmd_start"]
    /\ arg' = [arg EXCEPT ![t] = cmd]
    /\ strip' = [strip EXCEPT ![t] = strip_colors]
    /\ UNCHANGED <<engineVars, netVars, rd, in_len, codecVars>>

\* Lines 92-94: the _ready check, then _send_msg handed to wait_for.
SendCmdCall(t, cmd, strip_colors) ==
    /\ pc[t] = "idle"
    /\ calls[t] < MaxCalls
    /\ calls' = [calls EXCEPT ![t] = @ + 1]
    /\ IF ~ready
       THEN /\ result' = [result EXCEPT ![t] =
                   With(Begun("send_cmd"), Raise("ClientNotConnectedError"))]
            /\ UNCHANGED <<pc, arg, strip>>
       ELSE /\ result' = [result EXCEPT ![t] = BegunAfter(result[t].exc)]
            /\ pc' = [pc EXCEPT ![t] = "cmd_start"]
            /\ arg' = [arg EXCEPT ![t] = cmd]
            /\ strip' = [strip EXCEPT ![t] = strip_colors]
    /\ UNCHANGED <<engineVars, netVars, rd, in_len, codecVars>>

\* Lines 58-71 in the task wait_for runs: the COMMAND packet is written to
\* self._writer and the answer asked of self._reader.
SendCmdStart(t) ==
    /\ pc[t] = "cmd_start"
    /\ IF writer = None
       THEN /\ Complete(t, result[t], Raise("AttributeError"))
            /\ UNCHANGED <<outq, inbuf>>
       ELSE /\ \E req_id \in ReqIds :
                   outq' = [outq EXCEPT ![writer] = Append(@, EncodePacket(req_id, COMMAND, arg[t]))]
            /\ ReadHeader(t, [result[t] EXCEPT !.conn = writer], reader, inbuf)
    /\ UNCHANGED <<reader, writer, reBound, nconn, transport, inflight, eof,
                   calls, codecVars>>

\* Line 94: wait_for cancels _send_msg at its pending read.
Timeout(t) ==
    /\ result[t].op = "send_cmd"
    /\ pc[t] \in {"read_len", "read_data"}
    /\ inbuf' = inbuf
    /\ Complete(t, result[t], Raise("TimeoutError"))
    /\ UNCHANGED <<reader, writer, reBound, nconn, transport, outq, inflight, eof,
                   calls, codecVars>>

(* ------------------------------------------------------ the pending reads *)

\* Line 71 resumes: bytes arrived on the reader the read was issued on.
ReadLen(t) ==
    /\ pc[t] = "read_len"
    /\ Resumes(t, 4)
    /\ HeaderArrived(t, result[t], rd[t], reader, inbuf)
    /\ UNCHANGED <<reader, writer, reBound, nconn, transport, outq, inflight, eof,
                   calls, codecVars>>

\* Line 74 resumes.
ReadData(t) ==
    /\ pc[t] = "read_data"
    /\ Resumes(t, in_len[t])
    /\ inbuf' = [inbuf EXCEPT ![rd[t]] = StreamRest(@, in_len[t])]
    /\ Complete(t, result[t], DecodePayload(StreamRead(inbuf[rd[t]], in_len[t])))
    /\ UNCHANGED <<reader, writer, reBound, nconn, transport, outq, inflight, eof,
                   calls, codecVars>>

(* ---------------------------------------------------------------- close *)

\* Lines 104-106: only a ready engine closes its writer. The closed transport
\* drops what was in flight either way and feeds its reader end of file; bytes
\* left in the buffer matter only to a read that is pending on it.
CloseCall(t) ==
    /\ pc[t] = "idle"
    /\ calls[t] < MaxCalls
    /\ calls' = [calls EXCEPT ![t] = @ + 1]
    /\ IF ready
       THEN /\ transport' = [transport EXCEPT ![writer] = "closed"]
            /\ outq' = [outq EXCEPT ![writer] = <<>>]
            /\ inflight' = [inflight EXCEPT ![writer] = <<>>]
            /\ eof' = [eof EXCEPT ![writer] = TRUE]
            /\ waiter' = [waiter EXCEPT ![writer] = None]
            /\ inbuf' = [inbuf EXCEPT ![writer] = IF Reading(writer) THEN @ ELSE <<>>]
            /\ result' = [result EXCEPT ![t] = [Begun("close") EXCEPT !.conn = writer]]
            /\ pc' = [pc EXCEPT ![t] = "closing"]
       ELSE /\ result' = [result EXCEPT ![t] = With(Begun("close"), Return(<<>>, 0))]
            /\ UNCHANGED <<pc, transport, outq, inflight, eof, waiter, inbuf>>
    /\ UNCHANGED <<engineVars, nconn, arg, strip, rd, in_len, codecVars>>

\* CloseDone without line 111: _ready is left set.
CloseDoneStillReady(t) ==
    /\ pc[t] = "closing"
    /\ reader' = None
    /\ writer' = None
    /\ ready' = ready
    /\ pc' = [pc EXCEPT ![t] = "idle"]
    /\ result' = [result EXCEPT ![t] = With(@, Return(<<>>, 0))]
    /\ UNCHANGED <<reBound, netVars, calls, arg, strip, rd, in_len, codecVars>>

\* Lines 108-111, once wait_closed returns.
CloseDone(t) ==
    /\ pc[t] = "closing"
    /\ reader' = None
    /\ writer' = None
    /\ ready' = FALSE
    /\ pc' = [pc EXCEPT ![t] = "idle"]
    /\ result' = [result EXCEPT ![t] = With(@, Return(<<>>, 0))]
    /\ UNCHANGED <<reBound, netVars, calls, arg, strip, rd, in_len, codecVars>>

(* ----------------------------------------------------------- the server *)

\* Where the stream may cut an answer in two: inside the length header, right
\* after it, and inside the payload (after its two header fields, before the
\* body). Whole stands for no cut.
Splits == {2, 4, 12}
Whole == 0

\* The server answers the oldest unanswered packet of connection c with r. The
\* first k bytes of the answer arrive at once (all of them when k is Whole),
\* the rest stays in flight. Only a well-formed answer is cut: the others are
\* rejected whole.
ServerReply(c, r, k) ==
    /\ transport[c] = "open"
    /\ Referenced(c)
    /\ ~eof[c]
    /\ inflight[c] = <<>>
    /\ outq[c] # <<>>
    /\ LET bytes == ReplyBytes(r, Head(outq[c]))
           cut == IF k = Whole THEN Len(bytes) ELSE k
       IN  /\ cut <= Len(bytes)
           /\ k # Whole => r.kind = "ok"
           /\ inbuf' = [inbuf EXCEPT ![c] = @ \o SubSeq(bytes, 1, cut)]
           /\ inflight' = [inflight EXCEPT ![c] = SubSeq(bytes, cut + 1, Len(bytes))]
    /\ outq' = [outq EXCEPT ![c] = Tail(@)]
    /\ waiter' = [waiter EXCEPT ![c] = None]
    /\ UNCHANGED <<engineVars, nconn, transport, eof, taskVars, codecVars>>

\* The rest of an answer arrives.
Deliver(c) ==
    /\ transport[c] = "open"
    /\ Referenced(c)
    /\ inflight[c] # <<>>
    /\ inbuf' = [inbuf EXCEPT ![c] = @ \o inflight[c]]
    /\ inflight' = [inflight EXCEPT ![c] = <<>>]
    /\ waiter' = [waiter EXCEPT ![c] = None]
    /\ UNCHANGED <<engineVars, nconn, transport, outq, eof, taskVars, codecVars>>

\* The peer closes connection c, or the connection breaks: the reader is at end
\* of file after the bytes that have arrived, and what was still to come of an
\* answer never does.
PeerClose(c) ==
    /\ transport[c] = "open"
    /\ Referenced(c)
    /\ ~eof[c]
    /\ inflight' = [inflight EXCEPT ![c] = <<>>]
    /\ eof' = [eof EXCEPT ![c] = TRUE]
    /\ waiter' = [waiter EXCEPT ![c] = None]
    /\ UNCHANGED <<engineVars, nconn, transport, outq, inbuf, taskVars, codecVars>>

(* -------------------------------------------------------- specifications *)

\* One step of task t's call in progress.
TaskStep(t) ==
    \/ OpenDone(t)
    \/ \E e \in OpenErrors : OpenFailed(t, e)
    \/ SendCmdStart(t)
    \/ ReadLen(t)
    \/ ReadData(t)
    \/ Timeout(t)
    \/ CloseDone(t)

\* Task t makes a call.
TaskCall(t) ==
    \/ ConnectCall(t)
    \/ \E cmd \in Cmds, strip_colors \in BOOLEAN : SendCmdCall(t, cmd, strip_colors)
    \/ CloseCall(t)

\* Some caller has a call in progress or another one to make: past that point
\* the network has nothing left to show.
Live == \E t \in Tasks : pc[t] # "idle" \/ (t \in Callers /\ calls[t] < MaxCalls)

Server ==
    \/ \E c \in Conns, r \in Replies, k \in Splits \cup {Whole} : ServerReply(c, r, k)
    \/ \E c \in Conns : Deliver(c)
    \/ \E c \in Conns : PeerClose(c)

\* One caller, whose calls follow one another.
Next ==
    \/ \E t \in Callers : TaskCall(t)
    \/ \E t \in Callers : TaskStep(t)
    \/ Live /\ Server

Spec == Init /\ [][Next]_vars

(* -------------------------------------------- concurrent specification *)

\* Calls made so far by the two tasks together.
TotalCalls == calls[1] + calls[2]

LiveConc == (\E t \in Tasks : pc[t] # "idle") \/ TotalCalls < MaxConcCalls

\* The answers of the concurrent specification: a well-formed packet of type
\* RESPONSE or INVALID_AUTH, whole or cut after its length header.
ConcReplies == [kind : {"ok"}, type : {RESPONSE, INVALID_AUTH}, body : {<<ChA>>}]

ServerConc ==
    \/ \E c \in Conns, r \in ConcReplies, k \in {4, Whole} : ServerReply(c, r, k)
    \/ \E c \in Conns : Deliver(c)
    \/ \E c \in Conns : PeerClose(c)

\* Two tasks share the engine: either may call whenever it is idle, whatever
\* the other is in the middle of. Client holds no lock (lines 15-111), and
\* every await is a point where the other task may run.
NextConc ==
    \/ \E t \in Tasks : TotalCalls < MaxConcCalls /\ TaskCall(t)
    \/ \E t \in Tasks : TaskStep(t)
    \/ LiveConc /\ ServerConc

SpecConc == Init /\ [][NextConc]_vars

(* ------------------------------------------------- codec specification *)

\* The inputs of the codec specification: packets as _send_msg encodes them, of
\* every type, and raw streams of a declared length and a payload of that many
\* bytes.
CodecReqIds == ReqIds \cup {1234}
CodecTypes == {LOGIN, COMMAND, RESPONSE, INVALID_AUTH}
CodecBodies == {<<>>} \cup [1..1 -> {ChA, ChSect}] \cup [1..2 -> {ChA, ChSect}]
RawBytes == {0, ChA, 255}
RawPayloads(n) == IF n <= 0 THEN {<<>>} ELSE [1..n -> RawBytes]

Encoded(i, ty, m) ==
    [kind |-> "enc", req_id |-> i, type |-> ty, msg |-> m, len |-> 0,
     stream |-> EncodePacket(i, ty, m)]

Raw(n, pl) ==
    [kind |-> "raw", req_id |-> 0, type |-> 0, msg |-> <<>>, len |-> n,
     stream |-> Pack32(n) \o pl]

InitCodec ==
    /\ InitEngine
    /\ \/ \E i \in CodecReqIds, ty \in CodecTypes, m \in CodecBodies : cin = Encoded(i, ty, m)
       \/ \E n \in (-1)..MaxRawLen : \E pl \in RawPayloads(n) : cin = Raw(n, pl)
    /\ cout = Pending

\* The receive path runs on the drawn stream.
CodecDecode ==
    /\ cout.kind = "none"
    /\ cout' = RecvPacket(cin.stream)
    /\ UNCHANGED <<engineVars, netVars, taskVars, cin>>

NextCodec == CodecDecode

SpecCodec == InitCodec /\ [][NextCodec]_vars

(* --------------------------------------------------------------- claims *)

\* Task t makes a call of op in this step.
Calls(t, op) == pc[t] = "idle" /\ calls'[t] = calls[t] + 1 /\ result'[t].op = op

\* Task t's call ends in this step, at a read of _send_msg.
ReadEnds(t) == pc[t] \in {"read_len", "read_data"} /\ pc'[t] = "idle"

\* What the receive path of task t has before it: the length header, if it has
\* been read, and the bytes buffered on its reader.
Incoming(t) ==
    IF pc[t] = "read_data" THEN Pack32(in_len[t]) \o inbuf[rd[t]] ELSE inbuf[rd[t]]

\* The engine holds an open transport.
HoldsOpen == \E c \in Conns : (reader = c \/ writer = c) /\ transport[c] = "open"

\* C1: whenever the engine is not ready (fresh, closed, or after a failed
\* connect), send_cmd raises ClientNotConnectedError at once, and the step
\* writes no packet, reads no byte and leaves engine and network as they were.
C1_NotConnectedNoIO ==
    [][\A t \in Tasks :
        (Calls(t, "send_cmd") /\ ~ready) =>
            /\ result'[t].kind = "raise"
            /\ result'[t].exc = "ClientNotConnectedError"
            /\ pc'[t] = "idle"
            /\ UNCHANGED <<engineVars, netVars>>]_vars

\* C1 witness: send_cmd was refused while the engine, not ready after a failed
\* login, still holds the open connection.
C1_Witness ==
    \E t \in Tasks :
        /\ result[t].op = "send_cmd"
        /\ result[t].exc = "ClientNotConnectedError"
        /\ ~ready
        /\ HoldsOpen

C3_AuthFailureClosesTransport ==
    \A t \in Tasks :
        (result[t].op = "connect" /\ result[t].exc = "IncorrectPasswordError" /\ pc[t] = "idle")
            => transport[result[t].conn] # "open"

\* C4: when the answer before a pending connect or send_cmd is one well-formed
\* packet of a type other than INVALID_AUTH, connect returns and the engine is
\* ready, and send_cmd returns exactly the body and type of that packet and
\* leaves the engine ready.
C4_ReturnsWhatServerSent ==
    [][\A t \in Tasks : \A ty \in {RESPONSE, COMMAND}, id \in ReqIds, body \in RespBodies :
        (/\ ReadEnds(t)
         /\ Incoming(t) = ResponsePacket(ty, id, body)
         /\ result'[t].exc # "TimeoutError")
        => /\ result'[t].kind = "return"
           /\ ready'
           /\ result[t].op = "send_cmd" => result'[t].value = [msg |-> body, type |-> ty]]_vars

\* C5: decoding the bytes the encoder produced for (request id, type, body)
\* gives back that type and that body.
C5_EncodeDecodeIdentity ==
    (cin.kind = "enc" /\ cout.kind # "none")
        => (cout.kind = "return" /\ cout.value = [msg |-> cin.msg, type |-> cin.type])

\* C6: a response whose declared length is below 10, or whose payload does not
\* end in two NUL bytes, makes the receive path raise ValueError (the malformed
\* packet error) and nothing else.
C6_MalformedRejected ==
    (/\ cin.kind = "raw"
     /\ cout.kind # "none"
     /\ (cin.len < 10 \/ ~EndsNulNul(StreamRest(cin.stream, 4))))
        => (cout.kind = "raise" /\ cout.exc = "ValueError")

C8_CloseReleasesTransport ==
    \A t \in Tasks :
        (result[t].op = "close" /\ result[t].kind = "return" /\ pc[t] = "idle") => ~HoldsOpen

\* C9: a connect that waits for the answer to its LOGIN packet while none has
\* arrived can end by its timeout, raising the RCONConnectionError of a timeout.
C9_LoginRoundTripTimesOut ==
    \A t \in Tasks :
        (/\ result[t].op = "connect"
         /\ pc[t] = "read_len"
         /\ inbuf[rd[t]] = <<>>
         /\ ~eof[rd[t]])
        => ENABLED (/\ TaskStep(t)
                    /\ result'[t].exc = "RCONConnectionError"
                    /\ result'[t].why = "timeout")

\* C10: connect called on a ready engine returns at once: no connection is
\* opened, no packet written, and _ready, reader, writer and the network stay
\* as they were.
C10_ConnectWhenReadyNoOp ==
    [][\A t \in Tasks :
        (Calls(t, "connect") /\ ready) =>
            /\ result'[t].kind = "return"
            /\ pc'[t] = "idle"
            /\ UNCHANGED <<engineVars, netVars>>]_vars

\* C10 witness: a connect on the ready engine has returned without a
\* connection of its own.
C10_Witness ==
    \E t \in Tasks :
        /\ result[t].op = "connect"
        /\ result[t].kind = "return"
        /\ result[t].conn = None
        /\ ready
        /\ writer # None
        /\ transport[writer] = "open"

\* Task t writes its packet to connection c in this step (lines 67-68).
Writes(t, c) ==
    pc[t] \in {"opening", "cmd_start"} /\ result[t].conn = None /\ result'[t].conn = c

\* Task u has written the packet of a send_cmd to connection c and its read of
\* the answer has yet to end.
InExchange(u, c) ==
    result[u].op = "send_cmd" /\ pc[u] \in {"read_len", "read_data"} /\ rd[u] = c

\* C11: the exchanges of send_cmd calls made by several tasks on the ready
\* engine follow one another: no send_cmd writes its packet to the connection
\* while another task's send_cmd, having written its own, has yet to finish
\* reading the answer.
C11_ExchangesSerialized ==
    [][\A t \in Tasks, u \in Tasks, c \in Conns :
        (t # u /\ result[t].op = "send_cmd" /\ Writes(t, c)) => ~InExchange(u, c)]_vars

\* C12: a send_cmd cancelled by its timeout leaves nothing behind that the
\* next send_cmd takes as its own answer: when the pending read of a send_cmd
\* that follows a timed-out one ends by taking one whole well-formed packet,
\* the server has answered the packet that send_cmd wrote, so the packet taken
\* is not the late answer to the command that timed out.
C12_TimeoutKeepsFraming ==
    [][\A t \in Tasks : \A ty \in {RESPONSE, COMMAND}, id \in ReqIds, body \in RespBodies :
        (/\ result[t].op = "send_cmd"
         /\ result[t].after = "TimeoutError"
         /\ ReadEnds(t)
         /\ result'[t].exc # "TimeoutError"
         /\ Incoming(t) = ResponsePacket(ty, id, body))
        => outq[rd[t]] = <<>>]_vars

\* C13: however the stream cuts one well-formed answer into chunks, the call
\* that reads it ends as it does when the answer arrives whole: when a pending
\* read ends with part of the packet received and the rest still in flight,
\* connect returns, and send_cmd (strip_colors off) returns the packet's body
\* and type.
C13_ShortReadsSameResult ==
    [][\A t \in Tasks : \A ty \in {RESPONSE, COMMAND}, id \in ReqIds, body \in RespBodies :
        (/\ ReadEnds(t)
         /\ result'[t].exc # "TimeoutError"
         /\ result[t].op = "send_cmd" => ~strip[t]
         /\ Incoming(t) \o inflight[rd[t]] = ResponsePacket(ty, id, body))
        => /\ result'[t].kind = "return"
           /\ result[t].op = "send_cmd" => result'[t].value = [msg |-> body, type |-> ty]]_vars

\* Whether b is the beginning of a well-formed answer, short of the whole of it
\* (nothing at all included).
ProperPrefix(b) ==
    \E ty \in CodecTypes, id \in ReqIds, body \in RespBodies :
        LET p == ResponsePacket(ty, id, body)
        IN  Len(b) < Len(p) /\ b = SubSeq(p, 1, Len(b))

\* C14: when the peer has closed the connection and what a pending connect or
\* send_cmd received is only the beginning of an answer, or nothing, the call
\* raises the library's connection error: no other exception, and no value.
C14_PeerCloseTypedError ==
    [][\A t \in Tasks :
        (/\ ReadEnds(t)
         /\ result'[t].exc # "TimeoutError"
         /\ eof[rd[t]]
         /\ transport[rd[t]] = "open"
         /\ ProperPrefix(Incoming(t)))
        => (result'[t].kind = "raise" /\ result'[t].exc = "RCONConnectionError")]_vars

\* Task t's attempt to open the connection ends in this step with none opened.
OpenFails(t) == pc[t] = "opening" /\ pc'[t] # "opening" /\ nconn' = nconn

\* C15: when open_connection fails, connect raises RCONConnectionError saying
\* which failure it was (a timeout, a refusal, or anything else), the engine
\* stays not ready with its reader and writer as they were, and nothing is
\* written: the network is untouched.
C15_OpenFailureRaises ==
    [][\A t \in Tasks :
        OpenFails(t) =>
            /\ result'[t].kind = "raise"
            /\ result'[t].exc = "RCONConnectionError"
            /\ result'[t].cause \in OpenErrors
            /\ result'[t].cause = "TimeoutError" => result'[t].why = "timeout"
            /\ result'[t].cause = "ConnectionRefusedError" => result'[t].why = "refused"
            /\ result'[t].cause = "OSError" => result'[t].why = "unknown"
            /\ ~ready'
            /\ UNCHANGED <<engineVars, netVars>>]_vars

\* C15 witness: connect has failed on a refused connection, reported as such,
\* with no connection opened and the engine not ready.
C15_Witness ==
    \E t \in Tasks :
        /\ result[t].op = "connect"
        /\ result[t].exc = "RCONConnectionError"
        /\ result[t].cause = "ConnectionRefusedError"
        /\ result[t].why = "refused"
        /\ pc[t] = "idle"
        /\ nconn = 0
        /\ ~ready
        /\ writer = None

\* The number of bytes UTF-8 takes for the text s (code points below U+0800).
RECURSIVE Utf8Len(_)
Utf8Len(s) == IF s = <<>> THEN 0 ELSE (IF Head(s) < 128 THEN 1 ELSE 2) + Utf8Len(Tail(s))

\* Whether p is length | requestId | type | body | 00 00 for the given type
\* and body text, with the length counting what follows it.
RequestForm(p, ty, msg) ==
    /\ Len(p) = 14 + Utf8Len(msg)
    /\ Unpack32(SubSeq(p, 1, 4)) = 10 + Utf8Len(msg)
    /\ Unpack32(SubSeq(p, 1, 4)) = Len(p) - 4
    /\ Unpack32(SubSeq(p, 5, 8)) >= 0
    /\ Unpack32(SubSeq(p, 5, 8)) <= 2147483647
    /\ Unpack32(SubSeq(p, 9, 12)) = ty
    /\ SubSeq(p, 13, Len(p) - 2) = EncodeUtf8(msg)
    /\ p[Len(p) - 1] = 0
    /\ p[Len(p)] = 0

\* C16: every packet written is length | requestId | type | body | 00 00 in
\* little-endian 32-bit fields: the length is 10 plus the byte length of the
\* UTF-8 body, the request id lies in 0..2^31-1, the type is LOGIN with the
\* password as body for connect and COMMAND with the command for send_cmd.
C16_PacketForm ==
    [][\A t \in Tasks, c \in Conns :
        Writes(t, c) =>
            /\ outq'[c] # <<>>
            /\ LET p == outq'[c][Len(outq'[c])]
               IN  IF result[t].op = "connect"
                   THEN RequestForm(p, LOGIN, Password)
                   ELSE RequestForm(p, COMMAND, arg[t])]_vars

\* C16 witness: the COMMAND packet of the two-character command whose first
\* character takes two bytes, with the largest request id, is on the wire,
\* byte for byte.
C16_Witness ==
    \E c \in Conns :
        /\ outq[c] # <<>>
        /\ Head(outq[c]) = <<13, 0, 0, 0, 255, 255, 255, 127, 2, 0, 0, 0, 194, 167, 97, 0, 0>>

\* Task t's send_cmd ends in this step by raising, once past the _ready check.
SendCmdFails(t) ==
    /\ result[t].op = "send_cmd"
    /\ pc[t] \in {"cmd_start", "read_len", "read_data"}
    /\ pc'[t] = "idle"
    /\ result'[t].kind = "raise"

\* C17: a send_cmd that fails (by its timeout, on a malformed or undecodable
\* answer, or on an answer of type INVALID_AUTH, which raises
\* IncorrectPasswordError) leaves the engine as it was: still ready, with the
\* same reader and writer, which it has not closed. Only close makes a ready
\* engine not ready.
C17_FailedCommandKeepsState ==
    [][/\ \A t \in Tasks :
            SendCmdFails(t) =>
                /\ ready'
                /\ UNCHANGED <<ready, reader, writer, transport>>
                /\ writer # None
                /\ transport[writer] = "open"
       /\ \A t \in Tasks : \A id \in ReqIds, body \in RespBodies :
            (/\ result[t].op = "send_cmd"
             /\ ReadEnds(t)
             /\ result'[t].exc # "TimeoutError"
             /\ Incoming(t) = ResponsePacket(INVALID_AUTH, id, body))
            => result'[t].exc = "IncorrectPasswordError"
       /\ (ready /\ ~ready') => \E t \in Tasks : pc[t] = "closing" /\ result'[t].op = "close"
      ]_vars

\* C17 witness: send_cmd has raised IncorrectPasswordError and the engine is
\* still ready on its open connection.
C17_Witness ==
    \E t \in Tasks :
        /\ result[t].op = "send_cmd"
        /\ result[t].exc = "IncorrectPasswordError"
        /\ pc[t] = "idle"
        /\ ready
        /\ writer # None
        /\ reader = writer
        /\ transport[writer] = "open"

\* Whether the bytes b received on a connection hold one whole answer: the
\* length header, and at least as many bytes after it as it declares.
WholeAnswer(b) == Len(b) >= 4 /\ Len(b) - 4 >= Unpack32(SubSeq(b, 1, 4))

\* C18: the handshake comes first on every connection. connect writes its
\* LOGIN packet as the first packet of a connection just opened; send_cmd
\* writes a COMMAND packet, and only to the connection of a ready engine; and
\* the engine becomes ready, which is what lets send_cmd write, only when
\* connect has received on that connection a whole answer of a type other
\* than INVALID_AUTH.
C18_HandshakeFirst ==
    [][/\ \A t \in Tasks, c \in Conns :
            (Writes(t, c) /\ result[t].op = "connect") =>
                /\ transport[c] = "unopened"
                /\ Len(outq'[c]) = 1
                /\ Unpack32(SubSeq(outq'[c][1], 9, 12)) = LOGIN
       /\ \A t \in Tasks, c \in Conns :
            (Writes(t, c) /\ result[t].op = "send_cmd") =>
                /\ ready /\ writer = c /\ transport[c] = "open"
                /\ Unpack32(SubSeq(outq'[c][Len(outq'[c])], 9, 12)) = COMMAND
       /\ (~ready /\ ready') =>
            \E t \in Tasks :
                /\ result[t].op = "connect"
                /\ ReadEnds(t)
                /\ writer = rd[t]
                /\ WholeAnswer(Incoming(t))
                /\ Unpack32(SubSeq(Incoming(t), 5, 8)) # INVALID_AUTH
      ]_vars

\* Task t's send_cmd has passed the _ready check of line 92 and has yet to end.
PastReadyCheck(t) ==
    result[t].op = "send_cmd" /\ pc[t] \in {"cmd_start", "read_len", "read_data"}

\* C19: in every state, whatever close does meanwhile, a send_cmd that has
\* passed the _ready check finds the engine with its reader and writer
\* present and the writer's transport open.
C19_ReadyHasOpenTransport ==
    \A t \in Tasks :
        PastReadyCheck(t) =>
            /\ reader # None
            /\ writer # None
            /\ transport[writer] = "open"

\* C20: the engine never has two connections open: connect stores a new
\* connection in _reader and _writer only when the one they held, if any, is
\* no longer open.
C20_AtMostOneOpenConnection ==
    [][/\ \A c \in Conns :
            (reader' = c /\ reader # c) => (writer = None \/ transport[writer] # "open")
       /\ Cardinality({c \in Conns : transport'[c] = "open"}) <= 1
      ]_vars

====
